---- MODULE Spec2Model ----
(***************************************************************************)
(* Model of day01/src/main.rs: the calibration-document scorer.            *)
(*                                                                         *)
(* A character is a one-character string; the string "U+00B2" stands for   *)
(* the single character SUPERSCRIPT TWO, "LF" for line feed and "CR" for   *)
(* carriage return.  A &str is a sequence of characters.  An Option<u8>    *)
(* is a sequence of length at most one: <<>> is None, <<v>> is Some(v).    *)
(* A trie node is named by the path of keys leading to it from the root    *)
(* (every Node exclusively owns its children, so the path is the node's    *)
(* identity); a trie is the function from the paths of its nodes to their  *)
(* leaf fields.                                                            *)
(***************************************************************************)
EXTENDS Integers, Sequences, FiniteSets, TLC

VARIABLES pc, bi, passes, prev, tree, rtree, cal_doc, lines, cal_doc_line,
          chars, nodes, steps, first, last, score, sum

vars == <<pc, bi, passes, prev, tree, rtree, cal_doc, lines, cal_doc_line,
          chars, nodes, steps, first, last, score, sum>>

(* ---------------------------- bounds ----------------------------------- *)

MaxBuilds == 2

MaxPieces == 2

MaxDocLines == 2

(* ---------------------------- Option ----------------------------------- *)

None == <<>>

Some(v) == <<v>>

is_some(o) == o # <<>>

is_none(o) == o = <<>>

unwrap_or(o, d) == IF o = <<>> THEN d ELSE o[1]

(* ---------------------------- characters ------------------------------- *)

DecimalValue ==
  [c \in {"0", "1", "2", "3", "4", "5", "6", "7", "8", "9"} |->
     CASE c = "0" -> 0 [] c = "1" -> 1 [] c = "2" -> 2 [] c = "3" -> 3
       [] c = "4" -> 4 [] c = "5" -> 5 [] c = "6" -> 6 [] c = "7" -> 7
       [] c = "8" -> 8 [] c = "9" -> 9]

\* char::is_numeric: the Unicode general categories Nd, Nl and No.
is_numeric(c) == c \in DOMAIN DecimalValue \cup {"U+00B2"}

\* char::to_digit(10): only the ASCII digits have a value.
to_digit(c) == IF c \in DOMAIN DecimalValue THEN Some(DecimalValue[c]) ELSE None

\* Iterator::rev over the characters
Reverse(s) == [i \in 1..Len(s) |-> s[Len(s) + 1 - i]]

(* ---------------------------- vocabularies ----------------------------- *)

FIGURES_typo ==
  << [fig |-> <<"o", "n", "e">>, val |-> 1],
     [fig |-> <<"t", "w", "o">>, val |-> 2],
     [fig |-> <<"t", "h", "r", "e", "e">>, val |-> 3],
     [fig |-> <<"f", "o", "u", "r">>, val |-> 4],
     [fig |-> <<"f", "i", "v", "e">>, val |-> 5],
     [fig |-> <<"s", "i", "x">>, val |-> 6],
     [fig |-> <<"s", "e", "v", "e", "n">>, val |-> 7],
     [fig |-> <<"e", "i", "g", "h", "t">>, val |-> 8],
     [fig |-> <<"n", "e">>, val |-> 9] >>

FIGURES ==
  << [fig |-> <<"o", "n", "e">>, val |-> 1],
     [fig |-> <<"t", "w", "o">>, val |-> 2],
     [fig |-> <<"t", "h", "r", "e", "e">>, val |-> 3],
     [fig |-> <<"f", "o", "u", "r">>, val |-> 4],
     [fig |-> <<"f", "i", "v", "e">>, val |-> 5],
     [fig |-> <<"s", "i", "x">>, val |-> 6],
     [fig |-> <<"s", "e", "v", "e", "n">>, val |-> 7],
     [fig |-> <<"e", "i", "g", "h", "t">>, val |-> 8],
     [fig |-> <<"n", "i", "n", "e">>, val |-> 9] >>

R_FIGURES_typo ==
  << [fig |-> <<"e", "n", "o">>, val |-> 1],
     [fig |-> <<"o", "w", "t">>, val |-> 2],
     [fig |-> <<"e", "e", "r", "h", "t">>, val |-> 3],
     [fig |-> <<"r", "u", "o", "f">>, val |-> 4],
     [fig |-> <<"e", "v", "i", "f">>, val |-> 5],
     [fig |-> <<"x", "i", "s">>, val |-> 6],
     [fig |-> <<"n", "e", "v", "e", "s">>, val |-> 7],
     [fig |-> <<"t", "h", "g", "e", "i">>, val |-> 8],
     [fig |-> <<"e", "n", "i", "n">>, val |-> 9] >>

R_FIGURES ==
  << [fig |-> <<"e", "n", "o">>, val |-> 1],
     [fig |-> <<"o", "w", "t">>, val |-> 2],
     [fig |-> <<"e", "e", "r", "h", "t">>, val |-> 3],
     [fig |-> <<"r", "u", "o", "f">>, val |-> 4],
     [fig |-> <<"e", "v", "i", "f">>, val |-> 5],
     [fig |-> <<"x", "i", "s">>, val |-> 6],
     [fig |-> <<"n", "e", "v", "e", "s">>, val |-> 7],
     [fig |-> <<"t", "h", "g", "i", "e">>, val |-> 8],
     [fig |-> <<"e", "n", "i", "n">>, val |-> 9] >>

(* ---------------------------- Node ------------------------------------- *)

\* Node::new(leaf): a node without children, here as the root of a trie.
Node_new(leaf) == (<<>> :> leaf)

IsPrefix(p, q) == Len(p) <= Len(q) /\ SubSeq(q, 1, Len(p)) = p

contains_key(t, node, c) == Append(node, c) \in DOMAIN t

\* children.insert(key, Node::new(leaf)): replaces an existing child, and
\* with it the subtree the child owns.
add_child_insert(t, node, key, leaf) ==
  LET child == Append(node, key)
      keep  == {q \in DOMAIN t : ~IsPrefix(child, q)}
  IN  [q \in keep \cup {child} |-> IF q = child THEN leaf ELSE t[q]]

\* children.entry(key).or_insert_with(|| Node::new(leaf)); the node returned
\* is Append(node, key).
add_child(t, node, key, leaf) ==
  IF contains_key(t, node, key) THEN t
  ELSE t @@ (Append(node, key) :> leaf)

RECURSIVE add_path_walk(_, _, _)
\* the loop of add_path: the trie after walking/creating the nodes of the
\* rest of the figure below node, and the node the walk ends in
add_path_walk(figure, t, node) ==
  IF figure = <<>> THEN [t |-> t, child |-> node]
  ELSE add_path_walk(Tail(figure),
                     add_child(t, node, Head(figure), None),
                     Append(node, Head(figure)))

add_path(figure, value, t) ==
  LET w == add_path_walk(figure, t, <<>>)
  IN  [w.t EXCEPT ![w.child] = Some(value)]

(* ---------------------------- find_digit ------------------------------ *)

RECURSIVE advance(_, _, _, _)
\* the inner loop of find_digit over the frontier, in Vec order: either a
\* return with the leaf of the first terminal child, or the new frontier
advance(t, ns, c, new_nodes) ==
  IF ns = <<>> THEN [done |-> FALSE, ret |-> None, nodes |-> new_nodes]
  ELSE LET node == Head(ns)
       IN  IF contains_key(t, node, c)
           THEN LET new_node == Append(node, c)
                IN  IF is_some(t[new_node])
                    THEN [done |-> TRUE, ret |-> t[new_node], nodes |-> <<>>]
                    ELSE advance(t, Tail(ns), c, Append(new_nodes, new_node))
           ELSE advance(t, Tail(ns), c, new_nodes)

\* a new figure is started only when no match is in progress
start_match_if_idle(t, ns, c) ==
  IF ns = <<>> /\ contains_key(t, <<>>, c) THEN Append(ns, <<c>>) ELSE ns

\* "a new figure might be starting from this character on"
start_match(t, ns, c) ==
  IF contains_key(t, <<>>, c) THEN Append(ns, <<c>>) ELSE ns

\* the character code of the digit (c as u8) in place of its value
literal_code(c) == Some(48 + unwrap_or(to_digit(c), 0))

\* Some(c.to_digit(10).unwrap_or(0) as u8)
literal(c) == Some(unwrap_or(to_digit(c), 0))

\* one iteration of the outer loop of find_digit, for the character c
find_digit_step(t, ns, c) ==
  IF is_numeric(c)
  THEN [done |-> TRUE, ret |-> literal(c), nodes |-> <<>>]
  ELSE LET a == advance(t, ns, c, <<>>)
       IN  IF a.done THEN a
           ELSE [done |-> FALSE, ret |-> None,
                 nodes |-> start_match(t, a.nodes, c)]

RECURSIVE find_digit_loop(_, _, _)
find_digit_loop(cs, t, ns) ==
  IF cs = <<>> THEN None
  ELSE LET r == find_digit_step(t, ns, Head(cs))
       IN  IF r.done THEN r.ret ELSE find_digit_loop(Tail(cs), t, r.nodes)

find_digit(cs, t) == find_digit_loop(cs, t, <<>>)

parse_cal_doc_line(line, t, rt) ==
  LET f == find_digit(line, t)
  IN  IF is_none(f) THEN 0
      ELSE unwrap_or(f, 0) * 10 + unwrap_or(find_digit(Reverse(line), rt), 0)

(* ---------------------------- str::lines ------------------------------- *)

strip_cr(line) ==
  IF line # <<>> /\ line[Len(line)] = "CR"
  THEN SubSeq(line, 1, Len(line) - 1) ELSE line

RECURSIVE str_lines(_)
\* str::lines: a line ends at a line feed, a carriage return right before
\* the line feed is dropped, and a final line needs no line feed
str_lines(s) ==
  IF s = <<>> THEN <<>>
  ELSE LET lfs == {i \in 1..Len(s) : s[i] = "LF"}
       IN  IF lfs = {} THEN <<s>>
           ELSE LET i == CHOOSE k \in lfs : \A m \in lfs : k <= m
                IN  <<strip_cr(SubSeq(s, 1, i - 1))>> \o
                    str_lines(SubSeq(s, i + 1, Len(s)))

(* ---------------------------- inputs ---------------------------------- *)

Figs(voc) == {voc[k].fig : k \in 1..Len(voc)}

\* what lines are made of: the figures, literal digits, a numeric character
\* without a decimal value, a letter of no figure, and starts of figures
Pieces ==
  Figs(FIGURES) \cup
  { <<"0">>, <<"1">>, <<"7">>, <<"U+00B2">>, <<"a">>,
    <<"o">>, <<"e">>, <<"f", "i">>, <<"t", "h">> }

\* l followed by p, and l followed by p sharing l's last character
Joins(l, p) ==
  {l \o p} \cup
  (IF l # <<>> /\ l[Len(l)] = Head(p) THEN {l \o Tail(p)} ELSE {})

RECURSIVE LinesOf(_)
LinesOf(k) ==
  IF k = 0 THEN {<<>>}
  ELSE LET shorter == LinesOf(k - 1)
       IN  shorter \cup UNION {Joins(l, p) : l \in shorter, p \in Pieces}

FixtureLines ==
  << <<"t", "w", "o", "1", "n", "i", "n", "e">>,
     <<"e", "i", "g", "h", "t", "w", "o", "t", "h", "r", "e", "e">>,
     <<"a", "b", "c", "o", "n", "e", "2", "t", "h", "r", "e", "e", "x", "y", "z">>,
     <<"x", "t", "w", "o", "n", "e", "3", "f", "o", "u", "r">>,
     <<"4", "n", "i", "n", "e", "e", "i", "g", "h", "t", "s", "e", "v", "e", "n", "2">>,
     <<"z", "o", "n", "e", "i", "g", "h", "t", "2", "3", "4">>,
     <<"7", "p", "q", "r", "s", "t", "s", "i", "x", "t", "e", "e", "n">>,
     <<"o", "n", "e", "i", "g", "h", "t">>,
     <<"o", "n", "e">>,
     <<"t", "w", "o", "n", "e">>,
     <<"e", "i", "g", "h", "t", "w", "o">>,
     <<"n", "i", "n", "e", "i", "g", "h", "t">>,
     <<"e", "i", "g", "h", "t", "h", "r", "e", "e">>,
     <<"n", "i", "n", "e", "e", "i", "g", "h", "t">>,
     <<"e", "e", "e", "i", "g", "h", "t">>,
     <<"o", "o", "o", "n", "e", "e", "o", "n", "e">>,
     <<"1">>,
     <<"e", "i", "g", "h", "t", "w", "o", "t", "h", "r", "e", "e">> >>

RECURSIVE Terminated(_)
\* the lines, each followed by a line feed
Terminated(ls) ==
  IF ls = <<>> THEN <<>> ELSE Head(ls) \o <<"LF">> \o Terminated(Tail(ls))

cal_doc_fixture == Terminated(FixtureLines)

\* the lines of the other tests
TestLines ==
  { <<"1", "a", "b", "c", "2">>,
    <<"p", "q", "r", "3", "s", "t", "u", "8", "v", "w", "x">>,
    <<"t", "w", "o", "e", "i", "g", "h", "t", "h", "r", "e", "e">>,
    <<"f", "i", "f", "o", "u", "r">>,
    <<"o", "n", "i", "n", "e">>,
    <<"o", "n", "e", "a", "b", "s">> }

Lines == LinesOf(MaxPieces) \cup TestLines

\* the lines of the documents of several lines
SampleLines ==
  { <<>>, <<"a">>, <<"0">>, <<"1", "a", "2">>, <<"t", "w", "o", "n", "e">>,
    <<"e", "U+00B2">> }

Terminators == { <<"LF">>, <<"CR", "LF">> }

RECURSIVE DocsOf(_)
\* the documents of at most k lines, every line terminated
DocsOf(k) ==
  IF k = 0 THEN {<<>>}
  ELSE LET shorter == DocsOf(k - 1)
       IN  shorter \cup
           {d \o l \o t : d \in shorter, l \in SampleLines, t \in Terminators}

Docs ==
  {l \o <<"LF">> : l \in Lines} \cup
  DocsOf(MaxDocLines) \cup
  {d \o l : d \in DocsOf(MaxDocLines - 1), l \in SampleLines} \cup
  {cal_doc_fixture}

(* ---------------------------- state machine ---------------------------- *)

\* pc: "tree" and "rtree" while the tries are built (lines 70-74), "lines"
\* at the iterator of line 76, "first" and "last" inside the two find_digit
\* calls of parse_cal_doc_line, "after_first" and "after_last" at their
\* returns, "ret_line" at the return of parse_cal_doc_line, "done" at the
\* return of parse_cal_doc.

Init ==
  /\ pc = "tree"
  /\ bi = 1
  /\ passes = 0
  /\ prev = Node_new(None)
  /\ tree = Node_new(None)
  /\ rtree = Node_new(None)
  /\ cal_doc = <<>>
  /\ lines = <<>>
  /\ cal_doc_line = <<>>
  /\ chars = <<>>
  /\ nodes = <<>>
  /\ steps = 0
  /\ first = None
  /\ last = None
  /\ score = 0
  /\ sum = 0

scan == <<cal_doc, lines, cal_doc_line, chars, nodes, steps, first, last,
          score, sum>>

\* the vocabulary and the trie of the current build phase or scan
Voc == IF pc \in {"tree", "first", "after_first"} THEN FIGURES ELSE R_FIGURES

Cur == IF pc \in {"tree", "first", "after_first"} THEN tree ELSE rtree

\* one step of the for_each of line 71 or 74: add_path for the next figure
AddPath ==
  /\ pc \in {"tree", "rtree"}
  /\ bi <= Len(Voc)
  /\ LET t == add_path(Voc[bi].fig, Voc[bi].val, Cur)
     IN  /\ tree' = IF pc = "tree" THEN t ELSE tree
         /\ rtree' = IF pc = "rtree" THEN t ELSE rtree
         /\ prev' = IF bi = Len(Voc) /\ passes = 0 THEN t ELSE prev
  /\ bi' = bi + 1
  /\ passes' = IF bi = Len(Voc) THEN passes + 1 ELSE passes
  /\ UNCHANGED <<pc, scan>>

\* the vocabulary is applied once more to the root already built
Reapply ==
  /\ pc \in {"tree", "rtree"}
  /\ bi = Len(Voc) + 1
  /\ passes < MaxBuilds
  /\ bi' = 1
  /\ UNCHANGED <<pc, passes, prev, tree, rtree, scan>>

\* get_tree / get_rtree called again: a fresh root, built from the start
Rebuild ==
  /\ pc \in {"tree", "rtree"}
  /\ bi = Len(Voc) + 1
  /\ passes < MaxBuilds
  /\ tree' = IF pc = "tree" THEN Node_new(None) ELSE tree
  /\ rtree' = IF pc = "rtree" THEN Node_new(None) ELSE rtree
  /\ bi' = 1
  /\ UNCHANGED <<pc, passes, prev, scan>>

\* line 73: the forward trie is built, the root of the reverse one is made
NewRTree ==
  /\ pc = "tree"
  /\ bi = Len(Voc) + 1
  /\ pc' = "rtree"
  /\ rtree' = Node_new(None)
  /\ bi' = 1
  /\ passes' = 0
  /\ prev' = Node_new(None)
  /\ UNCHANGED <<tree, scan>>

\* line 76: both tries are built; the argument cal_doc is read for the
\* first time and split in lines
StartLines ==
  /\ pc = "rtree"
  /\ bi = Len(Voc) + 1
  /\ \E d \in Docs : cal_doc' = d /\ lines' = str_lines(d)
  /\ pc' = "lines"
  /\ bi' = 1
  /\ passes' = 0
  /\ prev' = Node_new(None)
  /\ sum' = 0
  /\ UNCHANGED <<tree, rtree, cal_doc_line, chars, nodes, steps, first, last,
                 score>>

\* the map of line 76 takes the next line: parse_cal_doc_line is entered and
\* its first find_digit starts with an empty frontier
NextLine ==
  /\ pc = "lines"
  /\ lines # <<>>
  /\ cal_doc_line' = Head(lines)
  /\ lines' = Tail(lines)
  /\ chars' = Head(lines)
  /\ nodes' = <<>>
  /\ steps' = 0
  /\ first' = None
  /\ last' = None
  /\ pc' = "first"
  /\ UNCHANGED <<bi, passes, prev, tree, rtree, cal_doc, score, sum>>

\* a matcher that backtracks: when every match in progress fails on a
\* character, the character is read once more with an empty frontier
FindDigitStep_rescan ==
  /\ pc \in {"first", "last"}
  /\ chars # <<>>
  /\ LET r == find_digit_step(Cur, nodes, Head(chars))
     IN  IF r.done
         THEN /\ first' = IF pc = "first" THEN r.ret ELSE first
              /\ last' = IF pc = "last" THEN r.ret ELSE last
              /\ pc' = IF pc = "first" THEN "after_first" ELSE "after_last"
              /\ nodes' = <<>>
              /\ chars' = <<>>
         ELSE /\ IF nodes # <<>> /\ advance(Cur, nodes, Head(chars), <<>>).nodes = <<>>
                 THEN nodes' = <<>> /\ chars' = chars
                 ELSE nodes' = r.nodes /\ chars' = Tail(chars)
              /\ UNCHANGED <<pc, first, last>>
  /\ steps' = steps + 1
  /\ UNCHANGED <<bi, passes, prev, tree, rtree, cal_doc, lines, cal_doc_line,
                 score, sum>>

\* one iteration of the loop of find_digit
FindDigitStep ==
  /\ pc \in {"first", "last"}
  /\ chars # <<>>
  /\ LET r == find_digit_step(Cur, nodes, Head(chars))
     IN  IF r.done
         THEN /\ first' = IF pc = "first" THEN r.ret ELSE first
              /\ last' = IF pc = "last" THEN r.ret ELSE last
              /\ pc' = IF pc = "first" THEN "after_first" ELSE "after_last"
              /\ nodes' = <<>>
              /\ chars' = <<>>
         ELSE /\ nodes' = r.nodes
              /\ chars' = Tail(chars)
              /\ UNCHANGED <<pc, first, last>>
  /\ steps' = steps + 1
  /\ UNCHANGED <<bi, passes, prev, tree, rtree, cal_doc, lines, cal_doc_line,
                 score, sum>>

\* the iterator is exhausted: find_digit returns None (line 112)
FindDigitNone ==
  /\ pc \in {"first", "last"}
  /\ chars = <<>>
  /\ first' = IF pc = "first" THEN None ELSE first
  /\ last' = IF pc = "last" THEN None ELSE last
  /\ pc' = IF pc = "first" THEN "after_first" ELSE "after_last"
  /\ nodes' = <<>>
  /\ UNCHANGED <<bi, passes, prev, tree, rtree, cal_doc, lines, cal_doc_line,
                 chars, steps, score, sum>>

\* line 81: no first digit, parse_cal_doc_line returns 0
ReturnZero ==
  /\ pc = "after_first"
  /\ is_none(first)
  /\ score' = 0
  /\ pc' = "ret_line"
  /\ UNCHANGED <<bi, passes, prev, tree, rtree, cal_doc, lines, cal_doc_line,
                 chars, nodes, steps, first, last, sum>>

\* the second find_digit without the early return of line 81 before it
StartLast_always ==
  /\ pc = "after_first"
  /\ chars' = Reverse(cal_doc_line)
  /\ nodes' = <<>>
  /\ steps' = 0
  /\ pc' = "last"
  /\ UNCHANGED <<bi, passes, prev, tree, rtree, cal_doc, lines, cal_doc_line,
                 first, last, score, sum>>

\* line 82: the second find_digit starts, over the reversed characters
StartLast ==
  /\ pc = "after_first"
  /\ ~is_none(first)
  /\ chars' = Reverse(cal_doc_line)
  /\ nodes' = <<>>
  /\ steps' = 0
  /\ pc' = "last"
  /\ UNCHANGED <<bi, passes, prev, tree, rtree, cal_doc, lines, cal_doc_line,
                 first, last, score, sum>>

\* line 84
ReturnScore ==
  /\ pc = "after_last"
  /\ score' = unwrap_or(first, 0) * 10 + unwrap_or(last, 0)
  /\ pc' = "ret_line"
  /\ UNCHANGED <<bi, passes, prev, tree, rtree, cal_doc, lines, cal_doc_line,
                 chars, nodes, steps, first, last, sum>>

\* the score of the line replaces the sum
SumLine_assign ==
  /\ pc = "ret_line"
  /\ sum' = score
  /\ pc' = "lines"
  /\ UNCHANGED <<bi, passes, prev, tree, rtree, cal_doc, lines, cal_doc_line,
                 chars, nodes, steps, first, last, score>>

\* the sum of line 76 adds the score of the line (u32 addition; a score is
\* at most 99, so the sum stays far below 2^32 for the documents read here)
SumLine ==
  /\ pc = "ret_line"
  /\ sum' = sum + score
  /\ pc' = "lines"
  /\ UNCHANGED <<bi, passes, prev, tree, rtree, cal_doc, lines, cal_doc_line,
                 chars, nodes, steps, first, last, score>>

\* no line is left: parse_cal_doc returns the sum
Return ==
  /\ pc = "lines"
  /\ lines = <<>>
  /\ pc' = "done"
  /\ UNCHANGED <<bi, passes, prev, tree, rtree, cal_doc, lines, cal_doc_line,
                 chars, nodes, steps, first, last, score, sum>>

Next ==
  \/ AddPath
  \/ Reapply
  \/ Rebuild
  \/ NewRTree
  \/ StartLines
  \/ NextLine
  \/ FindDigitStep
  \/ FindDigitNone
  \/ ReturnZero
  \/ StartLast
  \/ ReturnScore
  \/ SumLine
  \/ Return

Spec == Init /\ [][Next]_vars

\* the program is sequential and runs on: a step that can be taken is taken
FairSpec == Spec /\ WF_vars(Next)

(* ---------------------------- reference -------------------------------- *)

\* the sequence the current (or last) find_digit call reads
Scanned ==
  IF pc \in {"first", "after_first"} THEN cal_doc_line
  ELSE Reverse(cal_doc_line)

\* the tokens of s: the occurrences of the figures of voc and of the
\* decimal digits, each with its first and last position and its value
Occ(s, voc) ==
  { [from |-> i, to |-> i + Len(voc[k].fig) - 1, val |-> voc[k].val] :
      <<i, k>> \in { x \in (1..Len(s)) \X (1..Len(voc)) :
                       /\ x[1] + Len(voc[x[2]].fig) - 1 <= Len(s)
                       /\ SubSeq(s, x[1], x[1] + Len(voc[x[2]].fig) - 1)
                            = voc[x[2]].fig } }
  \cup
  { [from |-> i, to |-> i, val |-> DecimalValue[s[i]]] :
      i \in { x \in 1..Len(s) : s[x] \in DOMAIN DecimalValue } }

EarliestEnd(occ) == {o \in occ : \A q \in occ : o.to <= q.to}

LeftmostStart(occ) == {o \in occ : \A q \in occ : o.from <= q.from}

RightmostEnd(occ) == {o \in occ : \A q \in occ : o.to >= q.to}

Range(f) == {f[i] : i \in DOMAIN f}

Suffixes(s) == {SubSeq(s, i, Len(s)) : i \in 1..Len(s)}

IsProperPrefix(p, w) == Len(p) < Len(w) /\ SubSeq(w, 1, Len(p)) = p

RECURSIVE SumScores(_)
SumScores(ls) ==
  IF ls = <<>> THEN 0
  ELSE parse_cal_doc_line(Head(ls), tree, rtree) + SumScores(Tail(ls))

(* ---------------------------- claims ----------------------------------- *)

\* C1: find_digit returns the value of the token (literal decimal digit or
\* figure) that completes at the earliest position of the sequence it
\* reads, and None exactly when the sequence holds no token.
C1_EarliestToken ==
  LET occ == Occ(Scanned, Voc)
      ret == IF pc = "after_first" THEN first ELSE last
  IN  pc \in {"after_first", "after_last"} =>
        IF occ = {} THEN ret = None
        ELSE \A o \in EarliestEnd(occ) : ret = Some(o.val)

\* C2: on a line where the forward scan finds a digit, parse_cal_doc_line
\* returns 10 * first + last, first being the value of the first token of
\* the line and last the value of the last token of the line read forward.
C2_FirstAndLast ==
  LET occ == Occ(cal_doc_line, FIGURES)
  IN  (pc = "ret_line" /\ is_some(first)) =>
        /\ occ # {}
        /\ \A f \in LeftmostStart(occ) : \A l \in RightmostEnd(occ) :
             score = 10 * f.val + l.val

\* C3: parse_cal_doc returns the sum over the lines of the document of
\* parse_cal_doc_line of the line, with the tries built once; the fixture of
\* 18 lines sums to 885.
C3_SumOfLines ==
  pc = "done" =>
    /\ sum = SumScores(str_lines(cal_doc))
    /\ cal_doc = cal_doc_fixture => sum = 885

C3_Witness == pc = "done" /\ cal_doc = cal_doc_fixture /\ sum = 885

\* C4 as stated: a value returned by find_digit is in 1..9, never zero.
C4_OneToNine ==
  /\ (pc = "after_first" /\ is_some(first)) => first[1] \in 1..9
  /\ (pc = "after_last" /\ is_some(last)) => last[1] \in 1..9

\* C4 amended: a value returned by find_digit is in 0..9, and it is zero
\* only when the scan stopped at a numeric character (the literal 0, or a
\* numeric character without a decimal value), never for a figure.
C4_ZeroToNine ==
  LET ret == IF pc = "after_first" THEN first ELSE last
  IN  (pc \in {"after_first", "after_last"} /\ is_some(ret)) =>
        /\ ret[1] \in 0..9
        /\ ret[1] = 0 => is_numeric(Scanned[steps])

C4_Witness ==
  /\ pc = "after_last"
  /\ first = Some(0)
  /\ last \in {Some(v) : v \in 1..9}
  /\ ~is_numeric(Scanned[steps])

\* C5: when the forward find_digit returns None, parse_cal_doc_line returns
\* 0 and the reverse scan is never started.
C5_AbsentFirstScoresZero ==
  /\ pc \in {"last", "after_last"} => is_some(first)
  /\ (pc = "ret_line" /\ is_none(first)) => score = 0 /\ is_none(last)

C5_Witness ==
  /\ pc = "ret_line"
  /\ is_none(first)
  /\ score = 0
  /\ cal_doc_line # <<>>
  /\ steps = Len(cal_doc_line)

\* C6: the forward scan of a line finds a digit if and only if the reverse
\* scan of the line finds one, so last is never defaulted to 0.
C6_ForwardIffReverse ==
  /\ pc = "after_first" =>
       (is_some(first) <=> is_some(find_digit(Reverse(cal_doc_line), rtree)))
  /\ pc = "after_last" => is_some(last)

C6_Witness ==
  /\ pc = "after_last"
  /\ is_some(last)
  /\ first # last
  /\ \A i \in 1..Len(cal_doc_line) : ~is_numeric(cal_doc_line[i])

\* C7: applying add_path for a figure to a trie already built from the
\* vocabulary leaves the trie as it is, and every complete pass over the
\* vocabulary, from a fresh root or from the built one, ends in the same
\* trie as the first pass.
C7_BuildIdempotent ==
  /\ [](( /\ pc \in {"tree", "rtree"}
          /\ passes >= 1
          /\ bi = Len(Voc) + 1 ) => Cur = prev)
  /\ [][( /\ pc \in {"tree", "rtree"}
          /\ passes >= 1
          /\ Cur = prev
          /\ bi' = bi + 1 ) => Cur' = prev]_vars

C7_Witness ==
  /\ pc = "rtree"
  /\ passes >= 2
  /\ bi = Len(Voc) + 1
  /\ rtree = prev
  /\ Cardinality(DOMAIN rtree) > 1

\* C8: a find_digit call takes one step per character it reads, never
\* returns to a character, and has its result after at most as many steps
\* as the sequence has characters.
C8_BoundedScan ==
  /\ [](pc \in {"first", "last"} =>
         /\ steps + Len(chars) = Len(cal_doc_line)
         /\ chars = SubSeq(Scanned, steps + 1, Len(Scanned)))
  /\ [](pc \in {"after_first", "after_last"} => steps <= Len(cal_doc_line))
  /\ (pc = "first") ~> (pc = "after_first")
  /\ (pc = "last") ~> (pc = "after_last")

C8_Witness ==
  /\ pc = "after_first"
  /\ is_none(first)
  /\ steps = Len(cal_doc_line)
  /\ steps >= 3

\* C9: while find_digit has not returned, the frontier holds exactly one
\* node for every non-empty suffix of the characters read that is a proper
\* prefix of a figure, namely the node that suffix leads to, and no node of
\* the frontier is terminal.
C9_Frontier ==
  pc \in {"first", "last"} =>
    LET read == SubSeq(Scanned, 1, steps)
        live == {s \in Suffixes(read) :
                   \E w \in Figs(Voc) : IsProperPrefix(s, w)}
    IN  /\ Range(nodes) = live
        /\ Len(nodes) = Cardinality(live)
        /\ \A n \in Range(nodes) : n \in DOMAIN Cur /\ is_none(Cur[n])

C9_Witness ==
  /\ pc = "first"
  /\ Len(nodes) >= 2
  /\ chars # <<>>

\* C10: no character takes two nodes of the frontier to a terminal, and the
\* token of the sequence read that completes first is the one that starts
\* first (for the reverse scan: the token of the line that ends last is the
\* one that starts last).
C10_OneCompletion ==
  /\ pc \in {"first", "last"} =>
       \A c \in UNION {Range(w) : w \in Figs(Voc)} :
         Cardinality({i \in 1..Len(nodes) :
                        /\ contains_key(Cur, nodes[i], c)
                        /\ is_some(Cur[Append(nodes[i], c)])}) <= 1
  /\ pc \in {"after_first", "after_last"} =>
       LET occ == Occ(Scanned, Voc)
       IN  /\ EarliestEnd(occ) = LeftmostStart(occ)
           /\ Cardinality(EarliestEnd(occ)) <= 1

C10_Witness ==
  /\ pc = "after_last"
  /\ Cardinality(Occ(Scanned, Voc)) >= 2
  /\ steps >= 3
  /\ last # first

====
